---- MODULE Spec2Model ----
(***************************************************************************)
(* Model of the sales / revenue / inventory service of src/main.py.        *)
(*                                                                         *)
(* A datetime is a record [year, month, day, tod]; tod is the time of day  *)
(* in units of 1/TodPerDay of a day.  Optional values are sequences of     *)
(* length 0 (None) or 1 (a supplied value).                                *)
(***************************************************************************)
EXTENDS Integers, Sequences, FiniteSets, TLC

VARIABLES sales, inventory, now, pc, req, session, resp

vars == <<sales, inventory, now, pc, req, session, resp>>

(***************************************************************************)
(* Bounds of the model.                                                    *)
(***************************************************************************)
YearSpan == 1
TodPerDay == 2
MaxSales == 2
MaxStock == 2

Years == 2023 .. (2023 + YearSpan)

(***************************************************************************)
(* Optional values.                                                        *)
(***************************************************************************)
None == <<>>

Some(v) == <<v>>

IsNone(o) == Len(o) = 0

Val(o) == o[1]

\* Python truth value of an Optional[int]: None and 0 are both falsy.
TruthyInt(o) == ~IsNone(o) /\ Val(o) # 0

\* Python truth value of an Optional[datetime]: every datetime is truthy.
TruthyDate(o) == ~IsNone(o)

(***************************************************************************)
(* datetime arithmetic (proleptic Gregorian calendar).                     *)
(***************************************************************************)
IsLeap(y) == (y % 4 = 0) /\ ((y % 100 # 0) \/ (y % 400 = 0))

DaysInMonth(y, m) ==
    IF m = 2 THEN (IF IsLeap(y) THEN 29 ELSE 28)
    ELSE IF m \in {4, 6, 9, 11} THEN 30 ELSE 31

DaysBeforeYear(y) ==
    (y - 1) * 365 + ((y - 1) \div 4) - ((y - 1) \div 100) + ((y - 1) \div 400)

\* The days of year y before the first of month m.
DaysBeforeMonth(y, m) ==
    << 0, 31, 59, 90, 120, 151, 181, 212, 243, 273, 304, 334 >>[m]
    + (IF m > 2 /\ IsLeap(y) THEN 1 ELSE 0)

DateTime(y, m, d, t) == [year |-> y, month |-> m, day |-> d, tod |-> t]

ToOrdinal(dt) == DaysBeforeYear(dt.year) + DaysBeforeMonth(dt.year, dt.month) + dt.day

\* The date whose ordinal is n.
DateOfOrdinal(n) ==
    LET y == CHOOSE yy \in (2023 - 1) .. (2023 + YearSpan + 1) :
                 DaysBeforeYear(yy) < n /\ n <= DaysBeforeYear(yy + 1)
        r == n - DaysBeforeYear(y)
        m == CHOOSE mm \in 1 .. 12 :
                 DaysBeforeMonth(y, mm) < r /\ r <= DaysBeforeMonth(y, mm) + DaysInMonth(y, mm)
    IN  DateTime(y, m, r - DaysBeforeMonth(y, m), 0)

\* DateOfOrdinal tabulated over the years the model computes dates in.
OrdinalTable ==
    [n \in (DaysBeforeYear(2023 - 1) + 1) .. DaysBeforeYear(2023 + YearSpan + 2) |->
        DateOfOrdinal(n)] @@ << >>

FromOrdinal(n, t) == [OrdinalTable[n] EXCEPT !.tod = t]

\* The comparison key of a datetime (the order SQL and Python compare by).
Stamp(dt) == ToOrdinal(dt) * TodPerDay + dt.tod

\* dt + timedelta(days=k)
AddDays(dt, k) == FromOrdinal(ToOrdinal(dt) + k, dt.tod)

\* datetime.replace(year=y, month=m, day=d): ValueError when the month or the
\* day is out of range, otherwise the same time of day on the new date.
Replace(dt, y, m, d) ==
    IF m \in 1 .. 12 /\ d \in 1 .. DaysInMonth(y, m)
    THEN [ok |-> TRUE, value |-> DateTime(y, m, d, dt.tod)]
    ELSE [ok |-> FALSE, value |-> dt]

AllDates ==
    { DateTime(y, m, d, t) : y \in Years, m \in 1 .. 12, d \in 1 .. 31, t \in 0 .. (TodPerDay - 1) }

AllDateTimes == { dt \in AllDates : dt.day <= DaysInMonth(dt.year, dt.month) }

(***************************************************************************)
(* Sample inputs.                                                          *)
(***************************************************************************)
\* The instants the clock passes through, in order.
Instants == << DateTime(2024, 6, 1, 0), DateTime(2024, 6, 10, 0), DateTime(2024, 12, 15, 0) >>

InstantSet == { Instants[i] : i \in 1 .. Len(Instants) }

ProductIds == {0, 1}

CategoryIds == {0, 1}

OptIds == {None} \cup { Some(i) : i \in ProductIds \cup CategoryIds }

OptInstants == {None} \cup { Some(t) : t \in InstantSet }

\* Bodies of POST /sales/ (SaleCreate): product_id, quantity, revenue, category_id.
SaleInputs ==
    { [product_id |-> 1, quantity |-> 1, revenue |-> 20, category_id |-> 1],
      [product_id |-> 0, quantity |-> 1, revenue |-> 30, category_id |-> 1],
      [product_id |-> 1, quantity |-> 2, revenue |-> 30, category_id |-> 0] }

(***************************************************************************)
(* The Sale table: a sequence of rows in primary-key order.                *)
(***************************************************************************)
Sale(i, s, t) ==
    [id |-> i, product_id |-> s.product_id, quantity |-> s.quantity,
     revenue |-> s.revenue, sale_date |-> t, category_id |-> s.category_id]

\* POST /sales/: add the row, sale_date defaulting to the current time.
create_sale(db, t, s) ==
    LET row == Sale(Len(db) + 1, s, t)
    IN  [status |-> 200, body |-> row, sales |-> Append(db, row)]

\* GET /sales/ testing each parameter against None instead of for truth, while the
\* revenue query goes on testing for truth.
get_sales_is_not_none(db, start_date, end_date, product_id, category_id) ==
    SelectSeq(db, LAMBDA s :
        /\ ~IsNone(start_date) => Stamp(s.sale_date) >= Stamp(Val(start_date))
        /\ ~IsNone(end_date) => Stamp(s.sale_date) <= Stamp(Val(end_date))
        /\ ~IsNone(product_id) => s.product_id = Val(product_id)
        /\ ~IsNone(category_id) => s.category_id = Val(category_id))

\* GET /sales/: each filter is applied only when its parameter is truthy.
get_sales(db, start_date, end_date, product_id, category_id) ==
    LET q1 == IF TruthyDate(start_date)
              THEN SelectSeq(db, LAMBDA s : Stamp(s.sale_date) >= Stamp(Val(start_date)))
              ELSE db
        q2 == IF TruthyDate(end_date)
              THEN SelectSeq(q1, LAMBDA s : Stamp(s.sale_date) <= Stamp(Val(end_date)))
              ELSE q1
        q3 == IF TruthyInt(product_id)
              THEN SelectSeq(q2, LAMBDA s : s.product_id = Val(product_id))
              ELSE q2
        q4 == IF TruthyInt(category_id)
              THEN SelectSeq(q3, LAMBDA s : s.category_id = Val(category_id))
              ELSE q3
    IN  q4

RevenueQueryParams(sd, ed, pid, cid) ==
    [start_date |-> sd, end_date |-> ed, product_id |-> pid, category_id |-> cid]

\* The query of calculate_revenue_for_period: the date range always, the
\* product and category filters when truthy.
RevenueQuery(db, params) ==
    LET q1 == SelectSeq(db, LAMBDA s : Stamp(s.sale_date) >= Stamp(params.start_date)
                                       /\ Stamp(s.sale_date) <= Stamp(params.end_date))
        q2 == IF TruthyInt(params.product_id)
              THEN SelectSeq(q1, LAMBDA s : s.product_id = Val(params.product_id))
              ELSE q1
        q3 == IF TruthyInt(params.category_id)
              THEN SelectSeq(q2, LAMBDA s : s.category_id = Val(params.category_id))
              ELSE q2
    IN  q3

RECURSIVE SumRevenue(_)
SumRevenue(rows) ==
    IF rows = <<>> THEN 0 ELSE SumRevenue(SubSeq(rows, 1, Len(rows) - 1)) + rows[Len(rows)].revenue

calculate_revenue_for_period(db, params) == SumRevenue(RevenueQuery(db, params))

(***************************************************************************)
(* revenue_analysis: the loop over the period labels.  The loop keeps one  *)
(* end_date variable; every branch but "daily" overwrites it before use.   *)
(***************************************************************************)
PERIODS == << "daily", "weekly", "monthly", "annual" >>

\* The loop chaining its periods: the weekly end is taken from the end_date left
\* by the iteration before, not from start_date.
PeriodEnd_chained(period, start_date, end_date) ==
    CASE period = "daily" -> [ok |-> TRUE, value |-> end_date]
      [] period = "weekly" -> [ok |-> TRUE, value |-> AddDays(end_date, 6)]
      [] period = "monthly" ->
            LET r == Replace(start_date, start_date.year, start_date.month + 1, 1)
            IN  IF r.ok THEN [ok |-> TRUE, value |-> AddDays(r.value, -1)] ELSE r
      [] period = "annual" ->
            LET r == Replace(start_date, start_date.year + 1, 1, 1)
            IN  IF r.ok THEN [ok |-> TRUE, value |-> AddDays(r.value, -1)] ELSE r

\* The value end_date has when the period's query runs.
PeriodEnd(period, start_date, end_date) ==
    CASE period = "daily" -> [ok |-> TRUE, value |-> end_date]
      [] period = "weekly" -> [ok |-> TRUE, value |-> AddDays(start_date, 6)]
      [] period = "monthly" ->
            LET r == Replace(start_date, start_date.year, start_date.month + 1, 1)
            IN  IF r.ok THEN [ok |-> TRUE, value |-> AddDays(r.value, -1)] ELSE r
      [] period = "annual" ->
            LET r == Replace(start_date, start_date.year + 1, 1, 1)
            IN  IF r.ok THEN [ok |-> TRUE, value |-> AddDays(r.value, -1)] ELSE r

\* One entry of revenue_data.  window_end is not part of RevenueAnalysis: it
\* records the end_date the entry's query was made with.
RevenueEntry(period, revenue, window_end) ==
    [period |-> period, revenue |-> revenue, window_end |-> window_end]

\* The loop from its i-th iteration on, over the labels of order; end_date and
\* revenue_data are the handler's local variables.
RECURSIVE PeriodLoop(_, _, _, _, _, _, _, _)
\* One iteration, e being the outcome of computing the period's end_date: the
\* exception leaves the handler, or the entry is appended and the loop goes on.
PeriodStep(order, i, db, start_date, product_id, category_id, e, revenue_data) ==
    IF ~e.ok
    THEN [status |-> 500, body |-> <<>>]
    ELSE PeriodLoop(order, i + 1, db, start_date, product_id, category_id, e.value,
                    Append(revenue_data,
                           RevenueEntry(order[i],
                                        calculate_revenue_for_period(db,
                                            RevenueQueryParams(start_date, e.value,
                                                               product_id, category_id)),
                                        e.value)))

PeriodLoop(order, i, db, start_date, product_id, category_id, end_date, revenue_data) ==
    IF i > Len(order)
    THEN [status |-> 200, body |-> revenue_data]
    ELSE PeriodStep(order, i, db, start_date, product_id, category_id,
                    PeriodEnd(order[i], start_date, end_date), revenue_data)

RunPeriods(order, db, start_date, end_date, product_id, category_id) ==
    PeriodLoop(order, 1, db, start_date, product_id, category_id, end_date, <<>>)

\* GET /revenue/
revenue_analysis(db, start_date, end_date, product_id, category_id) ==
    RunPeriods(PERIODS, db, start_date, end_date, product_id, category_id)

(***************************************************************************)
(* The Inventory table and PUT /inventory/{product_id}.                    *)
(***************************************************************************)
Inventory(i, p, q, t) ==
    [id |-> i, product_id |-> p, stock_quantity |-> q, last_updated |-> t, category_id |-> 1]

\* .filter(Inventory.product_id == product_id).first(): the index of the first
\* matching row, 0 when there is none.
FirstInventory(inv, product_id) ==
    IF \E i \in 1 .. Len(inv) : inv[i].product_id = product_id
    THEN CHOOSE i \in 1 .. Len(inv) :
             /\ inv[i].product_id = product_id
             /\ \A j \in 1 .. (i - 1) : inv[j].product_id # product_id
    ELSE 0

\* The update refusing negative quantities only.
update_inventory_allows_zero(inv, t, product_id, stock_quantity) ==
    IF stock_quantity < 0
    THEN [status |-> 400, body |-> <<>>, inventory |-> inv]
    ELSE LET i == FirstInventory(inv, product_id)
         IN  IF i = 0
             THEN [status |-> 404, body |-> <<>>, inventory |-> inv]
             ELSE LET row == [inv[i] EXCEPT !.stock_quantity = stock_quantity,
                                            !.last_updated = t]
                  IN  [status |-> 200, body |-> row, inventory |-> [inv EXCEPT ![i] = row]]

\* The update leaving last_updated as it was.
update_inventory_stale(inv, t, product_id, stock_quantity) ==
    IF stock_quantity <= 0
    THEN [status |-> 400, body |-> <<>>, inventory |-> inv]
    ELSE LET i == FirstInventory(inv, product_id)
         IN  IF i = 0
             THEN [status |-> 404, body |-> <<>>, inventory |-> inv]
             ELSE LET row == [inv[i] EXCEPT !.stock_quantity = stock_quantity]
                  IN  [status |-> 200, body |-> row, inventory |-> [inv EXCEPT ![i] = row]]

update_inventory(inv, t, product_id, stock_quantity) ==
    IF stock_quantity <= 0
    THEN [status |-> 400, body |-> <<>>, inventory |-> inv]
    ELSE LET i == FirstInventory(inv, product_id)
         IN  IF i = 0
             THEN [status |-> 404, body |-> <<>>, inventory |-> inv]
             ELSE LET row == [inv[i] EXCEPT !.stock_quantity = stock_quantity,
                                            !.last_updated = t]
                  IN  [status |-> 200, body |-> row, inventory |-> [inv EXCEPT ![i] = row]]

(***************************************************************************)
(* Requests.  Each request runs in a slot: get_db opens a session, the     *)
(* handler runs, get_db's finally clause closes the session.               *)
(***************************************************************************)
\* Two requests can be in flight at once.
Slots == {1, 2}

NoRequest == [op |-> "none"]

NoResponse == [status |-> 0, body |-> <<>>]

CreateSaleRequest(s) == [op |-> "create_sale", sale |-> s]

GetSalesRequest(sd, ed, pid, cid) ==
    [op |-> "get_sales", start_date |-> sd, end_date |-> ed, product_id |-> pid, category_id |-> cid]

RevenueRequest(sd, ed, pid, cid) ==
    [op |-> "revenue_analysis", start_date |-> sd, end_date |-> ed,
     product_id |-> pid, category_id |-> cid]

\* The loop of revenue_analysis run over the labels in another order.
OrderRequest(o, sd, ed, pid, cid) ==
    [op |-> "periods_in_order", order |-> o, start_date |-> sd, end_date |-> ed,
     product_id |-> pid, category_id |-> cid]

UpdateInventoryRequest(pid, q) ==
    [op |-> "update_inventory", product_id |-> pid, stock_quantity |-> q]

\* get_db up to its yield: db = SessionLocal().
get_db_enter(s) == "open"

\* get_db without its try/finally: the session is closed only when the handler
\* returns.
get_db_exit_no_finally(how) == IF how = "raised" THEN "open" ELSE "closed"

\* get_db after its yield: the finally clause runs however the handler ended
\* (how is "returned" or "raised").
get_db_exit(how) == "closed"

InFlightCreates == Cardinality({ r \in Slots : pc[r] = "open" /\ req[r].op = "create_sale" })

Begin(r, q) ==
    /\ pc[r] = "idle"
    /\ q.op = "create_sale" => Len(sales) + InFlightCreates < MaxSales
    /\ pc' = [pc EXCEPT ![r] = "open"]
    /\ req' = [req EXCEPT ![r] = q]
    /\ session' = [session EXCEPT ![r] = get_db_enter(session[r])]
    /\ resp' = [resp EXCEPT ![r] = NoResponse]
    /\ UNCHANGED <<sales, inventory, now>>

\* The handler has ended with response res: normally, or by raising
\* (HTTPException for 400 and 404, an unhandled exception for 500).
Ended(r, res) ==
    /\ resp' = [resp EXCEPT ![r] = [status |-> res.status, body |-> res.body]]
    /\ pc' = [pc EXCEPT ![r] = IF res.status = 200 THEN "returned" ELSE "raised"]
    /\ UNCHANGED <<req, session, now>>

CreateSale(r) ==
    /\ pc[r] = "open" /\ req[r].op = "create_sale"
    /\ LET res == create_sale(sales, now, req[r].sale)
       IN  /\ sales' = res.sales
           /\ Ended(r, res)
    /\ UNCHANGED inventory

GetSales(r) ==
    /\ pc[r] = "open" /\ req[r].op = "get_sales"
    /\ Ended(r, [status |-> 200,
                 body |-> get_sales(sales, req[r].start_date, req[r].end_date,
                                    req[r].product_id, req[r].category_id)])
    /\ UNCHANGED <<sales, inventory>>

RevenueAnalysis(r) ==
    /\ pc[r] = "open" /\ req[r].op = "revenue_analysis"
    /\ Ended(r, revenue_analysis(sales, req[r].start_date, req[r].end_date,
                                 req[r].product_id, req[r].category_id))
    /\ UNCHANGED <<sales, inventory>>

PeriodsInOrder(r) ==
    /\ pc[r] = "open" /\ req[r].op = "periods_in_order"
    /\ Ended(r, RunPeriods(req[r].order, sales, req[r].start_date, req[r].end_date,
                           req[r].product_id, req[r].category_id))
    /\ UNCHANGED <<sales, inventory>>

UpdateInventory(r) ==
    /\ pc[r] = "open" /\ req[r].op = "update_inventory"
    /\ LET res == update_inventory(inventory, now, req[r].product_id, req[r].stock_quantity)
       IN  /\ inventory' = res.inventory
           /\ Ended(r, res)
    /\ UNCHANGED sales

Close(r) ==
    /\ pc[r] \in {"returned", "raised"}
    /\ session' = [session EXCEPT ![r] = get_db_exit(pc[r])]
    /\ pc' = [pc EXCEPT ![r] = "done"]
    /\ UNCHANGED <<sales, inventory, now, req, resp>>

\* The response has been sent: the slot is free for the next request.
Respond(r) ==
    /\ pc[r] = "done"
    /\ pc' = [pc EXCEPT ![r] = "idle"]
    /\ req' = [req EXCEPT ![r] = NoRequest]
    /\ resp' = [resp EXCEPT ![r] = NoResponse]
    /\ UNCHANGED <<sales, inventory, now, session>>

\* Time passes: the clock moves to the next instant.
Tick ==
    /\ \E i \in 1 .. (Len(Instants) - 1) : now = Instants[i] /\ now' = Instants[i + 1]
    /\ UNCHANGED <<sales, inventory, pc, req, session, resp>>

InitSlots ==
    /\ pc = [r \in Slots |-> "idle"]
    /\ req = [r \in Slots |-> NoRequest]
    /\ session = [r \in Slots |-> "none"]
    /\ resp = [r \in Slots |-> NoResponse]

(***************************************************************************)
(* QuerySpec: sales are recorded and queried, one request at a time.       *)
(***************************************************************************)
QueryInit ==
    /\ sales = <<>>
    /\ inventory = <<>>
    /\ now = Instants[1]
    /\ InitSlots

QueryNext ==
    \/ (pc[1] = "idle" /\ \E s \in SaleInputs : Begin(1, CreateSaleRequest(s)))
    \/ (pc[1] = "idle" /\ \E sd \in OptInstants, ed \in OptInstants, pid \in OptIds, cid \in OptIds :
                              Begin(1, GetSalesRequest(sd, ed, pid, cid)))
    \/ (pc[1] = "idle" /\ \E sd \in InstantSet, ed \in InstantSet, pid \in OptIds, cid \in OptIds :
                              Begin(1, RevenueRequest(sd, ed, pid, cid)))
    \/ (pc[1] = "idle" /\ Tick)
    \/ CreateSale(1)
    \/ GetSales(1)
    \/ RevenueAnalysis(1)
    \/ Close(1)
    \/ Respond(1)

QuerySpec == QueryInit /\ [][QueryNext]_vars

(***************************************************************************)
(* WindowSpec: the revenue analysis for every start_date of the calendar,  *)
(* and its loop run over the period labels in every order, on the store    *)
(* holding the two sales of 2024-06-01 and 2024-06-10.                     *)
(***************************************************************************)
ExampleSales ==
    LET first == create_sale(<<>>, Instants[1],
                     [product_id |-> 1, quantity |-> 1, revenue |-> 20, category_id |-> 1]).sales
    IN  create_sale(first, Instants[2],
            [product_id |-> 1, quantity |-> 1, revenue |-> 30, category_id |-> 1]).sales

Orders ==
    { o \in [1 .. Len(PERIODS) -> { PERIODS[i] : i \in 1 .. Len(PERIODS) }] :
          \A i, j \in 1 .. Len(PERIODS) : i # j => o[i] # o[j] }

WindowInit ==
    /\ sales = ExampleSales
    /\ inventory = <<>>
    /\ now = Instants[2]
    /\ InitSlots

WindowNext ==
    \/ (pc[1] = "idle" /\ \E sd \in AllDateTimes :
                              Begin(1, RevenueRequest(sd, Instants[2], None, None)))
    \/ (pc[1] = "idle" /\ \E o \in Orders, sd \in AllDateTimes :
                              Begin(1, OrderRequest(o, sd, Instants[2], None, None)))
    \/ RevenueAnalysis(1)
    \/ PeriodsInOrder(1)
    \/ Close(1)
    \/ Respond(1)

WindowSpec == WindowInit /\ [][WindowNext]_vars

(***************************************************************************)
(* InventorySpec: stock updates, one request at a time, on an Inventory    *)
(* table created beforehand with positive stock.                           *)
(***************************************************************************)
InitInventories ==
    {<<>>}
    \cup { << Inventory(1, p, q, Instants[1]) >> : p \in ProductIds, q \in 1 .. MaxStock }
    \cup { << Inventory(1, p1, q1, Instants[1]), Inventory(2, p2, q2, Instants[1]) >> :
               p1 \in ProductIds, p2 \in ProductIds, q1 \in 1 .. MaxStock, q2 \in 1 .. MaxStock }

InventoryInit ==
    /\ sales = <<>>
    /\ inventory \in InitInventories
    /\ now = Instants[1]
    /\ InitSlots

InventoryNext ==
    \/ (pc[1] = "idle" /\ \E p \in ProductIds, q \in (-1) .. MaxStock :
                              Begin(1, UpdateInventoryRequest(p, q)))
    \/ (pc[1] = "idle" /\ Tick)
    \/ UpdateInventory(1)
    \/ Close(1)
    \/ Respond(1)

InventorySpec == InventoryInit /\ [][InventoryNext]_vars

(***************************************************************************)
(* Spec: the service with two requests in flight at once, at one instant   *)
(* of the clock, on the store holding the two example sales.               *)
(***************************************************************************)
Init ==
    /\ sales = ExampleSales
    /\ inventory = << Inventory(1, 1, 1, Instants[1]) >>
    /\ now = Instants[2]
    /\ InitSlots

Handler(r) ==
    \/ GetSales(r)
    \/ RevenueAnalysis(r)
    \/ UpdateInventory(r)

Next ==
    \E r \in Slots :
        \/ Begin(r, GetSalesRequest(None, None, None, None))
        \/ \E sd \in {Instants[1], Instants[3]} :
               Begin(r, RevenueRequest(sd, Instants[2], None, None))
        \/ \E p \in ProductIds, q \in 0 .. 1 : Begin(r, UpdateInventoryRequest(p, q))
        \/ Handler(r)
        \/ Close(r)
        \/ Respond(r)

Spec == Init /\ [][Next]_vars

\* A handler that has started runs to its end, and the framework then resumes
\* get_db: neither step waits on anything.
FairSpec == Spec /\ \A r \in Slots : WF_vars(Handler(r)) /\ WF_vars(Close(r))

(***************************************************************************)
(* Properties.                                                             *)
(***************************************************************************)
\* The handler of slot r has just ended and its response is in resp[r].
Handled(r) == pc[r] \in {"returned", "raised"}

HandledOp(r, op) == Handled(r) /\ req[r].op = op

\* The entry of a revenue series for a period label.
Entry(body, label) == body[CHOOSE i \in 1 .. Len(body) : body[i].period = label]

\* The last day of dt's month, at dt's time of day.
MonthEnd(dt) == DateTime(dt.year, dt.month, DaysInMonth(dt.year, dt.month), dt.tod)

\* December 31 of dt's year, at dt's time of day.
YearEnd(dt) == DateTime(dt.year, 12, 31, dt.tod)

\* The rows the revenue computation sums for the window [q.start_date, window_end]
\* and the filters of request q.
WindowRows(q, window_end) ==
    RevenueQuery(sales, RevenueQueryParams(q.start_date, window_end, q.product_id, q.category_id))

\* C1: for every start_date in December the revenue analysis does not fail: it
\* returns its four-entry series, whose monthly window ends on December 31 of
\* start_date's year.
C1_DecemberDoesNotFail ==
    \A r \in Slots :
        (HandledOp(r, "revenue_analysis") /\ req[r].start_date.month = 12) =>
            /\ resp[r].status = 200
            /\ Len(resp[r].body) = 4
            /\ Entry(resp[r].body, "monthly").window_end = YearEnd(req[r].start_date)

\* C2: for every start_date the monthly window of the revenue analysis ends on the
\* last calendar day of start_date's month (2024-01-31 -> 2024-01-31,
\* 2024-02-01 -> 2024-02-29, 2024-12-15 -> 2024-12-31).
C2_MonthlyWindowEndsMonth ==
    \A r \in Slots :
        HandledOp(r, "revenue_analysis") =>
            /\ resp[r].status = 200
            /\ resp[r].body[3].period = "monthly"
            /\ resp[r].body[3].window_end = MonthEnd(req[r].start_date)

\* Sale row s satisfies every constraint that listing request q supplies.
Satisfies(s, q) ==
    /\ ~IsNone(q.start_date) => Stamp(s.sale_date) >= Stamp(Val(q.start_date))
    /\ ~IsNone(q.end_date) => Stamp(s.sale_date) <= Stamp(Val(q.end_date))
    /\ ~IsNone(q.product_id) => s.product_id = Val(q.product_id)
    /\ ~IsNone(q.category_id) => s.category_id = Val(q.category_id)

\* C3: the sales listing returns a row iff the row satisfies every supplied
\* constraint, a supplied product_id or category_id of 0 included.
C3_ListingIsConjunction ==
    \A r \in Slots :
        HandledOp(r, "get_sales") =>
            resp[r].body = SelectSeq(sales, LAMBDA s : Satisfies(s, req[r]))

\* C4: the listing and the revenue computation never disagree on the matching
\* rows: a listing with both dates supplied returns the rows the revenue
\* computation sums for the same four parameters, and a returned daily revenue is
\* the sum of the revenue of the rows listed for them.
C4_ListingAgreesWithRevenue ==
    \A r \in Slots :
        /\ (HandledOp(r, "get_sales") /\ ~IsNone(req[r].start_date) /\ ~IsNone(req[r].end_date)) =>
               LET params == RevenueQueryParams(Val(req[r].start_date), Val(req[r].end_date),
                                                req[r].product_id, req[r].category_id)
               IN  /\ resp[r].body = RevenueQuery(sales, params)
                   /\ SumRevenue(resp[r].body) = calculate_revenue_for_period(sales, params)
        /\ (HandledOp(r, "revenue_analysis") /\ resp[r].status = 200) =>
               Entry(resp[r].body, "daily").revenue =
                   SumRevenue(get_sales(sales, Some(req[r].start_date), Some(req[r].end_date),
                                        req[r].product_id, req[r].category_id))

\* A listing with both dates and a product_id of 0 has returned some, not all, of
\* the rows of the store.
C4_Witness ==
    \E r \in Slots :
        /\ HandledOp(r, "get_sales")
        /\ ~IsNone(req[r].start_date) /\ ~IsNone(req[r].end_date)
        /\ req[r].product_id = Some(0)
        /\ Len(resp[r].body) >= 1
        /\ Len(resp[r].body) < Len(sales)

\* C5: for every start_date and base end_date the weekly entry of the revenue
\* series is the revenue of the matching sales in [start_date, start_date + 6 days].
C5_WeeklyEntry ==
    \A r \in Slots :
        HandledOp(r, "revenue_analysis") =>
            /\ resp[r].status = 200
            /\ resp[r].body[2].period = "weekly"
            /\ resp[r].body[2].window_end = AddDays(req[r].start_date, 6)
            /\ resp[r].body[2].revenue =
                   SumRevenue(WindowRows(req[r], AddDays(req[r].start_date, 6)))

\* C6: for every start_date and base end_date the annual entry of the revenue
\* series is the revenue of the matching sales in [start_date, December 31 of
\* start_date's year].
C6_AnnualEntry ==
    \A r \in Slots :
        HandledOp(r, "revenue_analysis") =>
            /\ resp[r].status = 200
            /\ resp[r].body[4].period = "annual"
            /\ resp[r].body[4].window_end = YearEnd(req[r].start_date)
            /\ resp[r].body[4].revenue = SumRevenue(WindowRows(req[r], YearEnd(req[r].start_date)))

\* The response the handler computes for the parameters of request q, with its
\* loop in the fixed order daily, weekly, monthly, annual.
FixedOrder(q) ==
    revenue_analysis(sales, q.start_date, q.end_date, q.product_id, q.category_id)

\* The position of a label in an order.
Position(order, label) == CHOOSE i \in 1 .. Len(PERIODS) : order[i] = label

UpdateEnds(r) == pc[r] = "open" /\ req[r].op = "update_inventory" /\ pc'[r] # "open"

\* C8: an update with a zero or negative stock_quantity fails with 400 and changes
\* no Inventory row, whether or not the product has a row; so every Inventory row
\* keeps a positive stock_quantity.
C8_NonPositiveRejected ==
    /\ [](\A i \in 1 .. Len(inventory) : inventory[i].stock_quantity > 0)
    /\ [](\A r \in Slots :
              (HandledOp(r, "update_inventory") /\ req[r].stock_quantity <= 0) =>
                  resp[r].status = 400)
    /\ [][\A r \in Slots :
              (UpdateEnds(r) /\ req[r].stock_quantity <= 0) => inventory' = inventory]_vars

\* An update with stock_quantity 0 for a product that has a row has been refused,
\* and so has one for a product that has none.
C8_Witness ==
    /\ pc[1] = "raised"
    /\ req[1].op = "update_inventory"
    /\ req[1].stock_quantity = 0
    /\ resp[1].status = 400
    /\ Len(inventory) = 1
    /\ inventory[1].product_id = req[1].product_id

\* C9: an update with a positive stock_quantity for a product that has a row is
\* answered 200 with the updated row: the row has the given stock_quantity and the
\* current time as last_updated, which is not earlier than before, and every other
\* row is unchanged; for a product without a row it is answered 404 and changes
\* nothing.
C9_UpdateSucceeds ==
    [][\A r \in Slots :
           (UpdateEnds(r) /\ req[r].stock_quantity > 0) =>
               IF \E i \in 1 .. Len(inventory) : inventory[i].product_id = req[r].product_id
               THEN /\ resp'[r].status = 200
                    /\ Len(inventory') = Len(inventory)
                    /\ \E i \in 1 .. Len(inventory) :
                           /\ inventory[i].product_id = req[r].product_id
                           /\ inventory'[i] = [inventory[i] EXCEPT
                                                  !.stock_quantity = req[r].stock_quantity,
                                                  !.last_updated = now]
                           /\ Stamp(inventory'[i].last_updated) >= Stamp(inventory[i].last_updated)
                           /\ resp'[r].body = inventory'[i]
                           /\ \A j \in 1 .. Len(inventory) : j # i => inventory'[j] = inventory[j]
               ELSE /\ resp'[r].status = 404
                    /\ inventory' = inventory]_vars

\* An update has succeeded on a table of two rows at a later instant than the one
\* the rows were created at, and changed the stock of the row it returns.
C9_Witness ==
    /\ pc[1] = "returned"
    /\ req[1].op = "update_inventory"
    /\ resp[1].status = 200
    /\ Len(inventory) = 2
    /\ resp[1].body.last_updated = now
    /\ now # Instants[1]
    /\ \E i \in 1 .. 2 : inventory[i] = resp[1].body /\ inventory[3 - i].last_updated = Instants[1]

\* C10: a request holds one open session while its handler runs, the session is
\* eventually closed however the handler ends, and no session is open once its
\* request has completed.
C10_SessionReleased ==
    /\ [](\A r \in Slots :
              /\ pc[r] \in {"open", "returned", "raised"} => session[r] = "open"
              /\ pc[r] \in {"done", "idle"} => session[r] # "open")
    /\ \A r \in Slots : (session[r] = "open") ~> (session[r] = "closed")

\* One request has failed while deriving the revenue windows, another with 400 or
\* 404, and the sessions of both are closed.
C10_Witness ==
    \E r1 \in Slots, r2 \in Slots :
        /\ pc[r1] = "done" /\ req[r1].op = "revenue_analysis" /\ resp[r1].status = 500
        /\ session[r1] = "closed"
        /\ pc[r2] = "done" /\ req[r2].op = "update_inventory" /\ resp[r2].status \in {400, 404}
        /\ session[r2] = "closed"

====
